---- MODULE Spec2Model ----
(***************************************************************************)
(* Model of create_iris_kml.py: the rake classifier and the batch          *)
(* transform create_kml_from_custom_ndk (read, group lines into event      *)
(* chunks, extract fields, emit one point per event, save the document).   *)
(*                                                                         *)
(* Text is modelled as sequences of one-character strings, so that strip,  *)
(* split, startswith and float() are computed as Python computes them.     *)
(* A Python float is a record [nan, v]: NaN, or the integer-valued number  *)
(* v (the token vocabulary of the inputs has no fractional numerals).      *)
(***************************************************************************)
EXTENDS Integers, Sequences, FiniteSets, TLC

VARIABLES
    pc,                          \* position in create_kml_from_custom_ndk
    file,                        \* the lines of the input file on disk
    lines,                       \* local: result of f.readlines()
    kml_created,                 \* the Kml object and its folders exist
    folder_map,                  \* fault type -> points of that sub-folder
    events_without_fm_folder,    \* points of the fallback folder
    events_processed_with_fm,
    events_processed_without_fm,
    events_skipped,
    events,                      \* the event chunks
    i,                           \* loop index of enumerate(events)
    time_str, lat, lon, depth, mag,   \* function locals that outlive an iteration
    assets,                      \* beachball images written to image_dir
    render_failed,               \* chunk numbers whose beachball call raised
    saves,                       \* number of kml.save calls
    rake_in, rake_out            \* argument and result of a classifier call

vars == <<pc, file, lines, kml_created, folder_map, events_without_fm_folder,
          events_processed_with_fm, events_processed_without_fm, events_skipped,
          events, i, time_str, lat, lon, depth, mag, assets, render_failed, saves,
          rake_in, rake_out>>

----------------------------------------------------------------------------
(* Bounds of the explored inputs *)
MaxEvents == 2      \* event blocks per structured input file
MaxLines == 4       \* lines per free-form input file
RakeMax == 200      \* classifier inputs range over -RakeMax..RakeMax and NaN

----------------------------------------------------------------------------
(* Python floats *)
F(n) == [nan |-> FALSE, v |-> n]
NaN == [nan |-> TRUE, v |-> 0]
FLe(a, b) == ~a.nan /\ ~b.nan /\ a.v <= b.v
FGe(a, b) == ~a.nan /\ ~b.nan /\ a.v >= b.v
FEq(a, b) == ~a.nan /\ ~b.nan /\ a.v = b.v
FMul(a, n) == IF a.nan THEN NaN ELSE F(a.v * n)

(* Python str methods on sequences of characters *)
Whitespace == {" ", "\t", "\n"}

RECURSIVE LStrip(_)
LStrip(s) == IF s # <<>> /\ Head(s) \in Whitespace THEN LStrip(Tail(s)) ELSE s

RECURSIVE RStrip(_)
RStrip(s) == IF s # <<>> /\ s[Len(s)] \in Whitespace
             THEN RStrip(SubSeq(s, 1, Len(s) - 1)) ELSE s

Strip(s) == RStrip(LStrip(s))

StartsWith(s, p) == Len(s) >= Len(p) /\ SubSeq(s, 1, Len(p)) = p

\* str.split() with no argument: maximal runs of non-whitespace characters
RECURSIVE SplitFrom(_, _, _)
SplitFrom(s, cur, acc) ==
    IF s = <<>> THEN (IF cur = <<>> THEN acc ELSE Append(acc, cur))
    ELSE IF Head(s) \in Whitespace
         THEN SplitFrom(Tail(s), <<>>, IF cur = <<>> THEN acc ELSE Append(acc, cur))
         ELSE SplitFrom(Tail(s), Append(cur, Head(s)), acc)

Split(s) == SplitFrom(s, <<>>, <<>>)

Digits == <<"0", "1", "2", "3", "4", "5", "6", "7", "8", "9">>
IsDigit(c) == \E d \in 1..10 : Digits[d] = c
DigitVal(c) == (CHOOSE d \in 1..10 : Digits[d] = c) - 1

RECURSIVE DecVal(_, _)
DecVal(s, acc) == IF s = <<>> THEN acc ELSE DecVal(Tail(s), 10 * acc + DigitVal(Head(s)))

Unsigned(tok) == IF tok # <<>> /\ Head(tok) \in {"-", "+"} THEN Tail(tok) ELSE tok
IsNanWord(s) == s = <<"n", "a", "n">>
IsDecimal(s) == s # <<>> /\ \A k \in 1..Len(s) : IsDigit(s[k])

\* float(tok) succeeds (otherwise it raises ValueError)
IsFloat(tok) == IsNanWord(Unsigned(tok)) \/ IsDecimal(Unsigned(tok))

\* the value of float(tok) when it succeeds
ParseFloat(tok) ==
    IF IsNanWord(Unsigned(tok)) THEN NaN
    ELSE IF Head(tok) = "-" THEN F(0 - DecVal(Unsigned(tok), 0))
    ELSE F(DecVal(Unsigned(tok), 0))

----------------------------------------------------------------------------
\* variant: the lower bound of the Normal range taken as exclusive
classify_exclusive_bound(rake) ==
    IF ~FLe(rake, F(-120)) /\ ~rake.nan /\ FLe(rake, F(-60)) THEN <<"Normal", "green">>
    ELSE IF FLe(F(60), rake) /\ FLe(rake, F(120)) THEN <<"Thrust", "red">>
    ELSE IF (FLe(F(-30), rake) /\ FLe(rake, F(30))) \/ FGe(rake, F(150)) \/ FLe(rake, F(-150))
         THEN <<"Strike-Slip", "blue">>
    ELSE <<"Oblique", "yellow">>

(* classify_and_color_by_rake: returns <<fault type, color>> *)
classify_and_color_by_rake(rake) ==
    IF FLe(F(-120), rake) /\ FLe(rake, F(-60)) THEN <<"Normal", "green">>
    ELSE IF FLe(F(60), rake) /\ FLe(rake, F(120)) THEN <<"Thrust", "red">>
    ELSE IF (FLe(F(-30), rake) /\ FLe(rake, F(30))) \/ FGe(rake, F(150)) \/ FLe(rake, F(-150))
         THEN <<"Strike-Slip", "blue">>
    ELSE <<"Oblique", "yellow">>

\* keys of folder_map
FaultTypes == {"Normal", "Thrust", "Strike-Slip", "Oblique"}

\* the color legend of the docstring and of kml.document.description
LegendColor == [t \in FaultTypes |->
    CASE t = "Normal" -> "red"
      [] t = "Thrust" -> "blue"
      [] t = "Strike-Slip" -> "green"
      [] t = "Oblique" -> "yellow"]

----------------------------------------------------------------------------
(* Record grouper, lines 80-91 *)
Sentinels == {<<"P", "D", "E", "Q">>, <<"P", "D", "E", "W">>, <<"S", "W", "E", "Q">>}

\* clean_line.startswith(('PDEQ', 'PDEW', 'SWEQ'))
IsSentinelLine(clean_line) == \E p \in Sentinels : StartsWith(clean_line, p)

RECURSIVE GroupFrom(_, _, _)
GroupFrom(ls, evs, current_event) ==
    IF ls = <<>>
    THEN (IF current_event # <<>> THEN Append(evs, current_event) ELSE evs)
    ELSE LET clean_line == Strip(Head(ls)) IN
         IF clean_line = <<>>
         THEN GroupFrom(Tail(ls), evs, current_event)
         ELSE IF IsSentinelLine(clean_line) /\ current_event # <<>>
              THEN GroupFrom(Tail(ls), Append(evs, current_event), <<clean_line>>)
              ELSE GroupFrom(Tail(ls), evs, Append(current_event, clean_line))

\* variant: the chunk in progress at the end of the input is not appended
RECURSIVE GroupFromNoFlush(_, _, _)
GroupFromNoFlush(ls, evs, current_event) ==
    IF ls = <<>>
    THEN evs
    ELSE LET clean_line == Strip(Head(ls)) IN
         IF clean_line = <<>>
         THEN GroupFromNoFlush(Tail(ls), evs, current_event)
         ELSE IF IsSentinelLine(clean_line) /\ current_event # <<>>
              THEN GroupFromNoFlush(Tail(ls), Append(evs, current_event), <<clean_line>>)
              ELSE GroupFromNoFlush(Tail(ls), evs, Append(current_event, clean_line))

GroupLinesNoFlush(ls) == GroupFromNoFlush(ls, <<>>, <<>>)

GroupLines(ls) == GroupFrom(ls, <<>>, <<>>)

----------------------------------------------------------------------------
(* Field extractor, lines 105-121 *)

\* a function local: unbound until its first assignment
UnboundStr == [bound |-> FALSE, val |-> <<>>]
UnboundFloat == [bound |-> FALSE, val |-> F(0)]
Bound(x) == [bound |-> TRUE, val |-> x]

\* how many of the five assignments of lines 106-110 complete before one raises
\* (IndexError on a missing token, ValueError on a non-numeric one)
PdeAssigned(pde_parts) ==
    IF Len(pde_parts) < 3 THEN 0
    ELSE IF ~(Len(pde_parts) >= 4 /\ IsFloat(pde_parts[4])) THEN 1
    ELSE IF ~(Len(pde_parts) >= 5 /\ IsFloat(pde_parts[5])) THEN 2
    ELSE IF ~(Len(pde_parts) >= 6 /\ IsFloat(pde_parts[6])) THEN 3
    ELSE IF ~(Len(pde_parts) >= 8 /\ IsFloat(pde_parts[8])) THEN 4
    ELSE 5

\* f"{pde_parts[1]} {pde_parts[2]}"
TimeOf(pde_parts) == pde_parts[2] \o <<" ">> \o pde_parts[3]

\* sdr_parts[-k]
FromEnd(parts, k) == parts[Len(parts) - k + 1]

\* lines 115-118 complete: at least 6 tokens, strike, dip and rake numeric
SdrParses(sdr_parts) ==
    /\ Len(sdr_parts) >= 6
    /\ IsFloat(FromEnd(sdr_parts, 6))
    /\ IsFloat(FromEnd(sdr_parts, 5))
    /\ IsFloat(FromEnd(sdr_parts, 4))

SdrOf(sdr_parts) == <<ParseFloat(FromEnd(sdr_parts, 6)),
                      ParseFloat(FromEnd(sdr_parts, 5)),
                      ParseFloat(FromEnd(sdr_parts, 4))>>

\* variant: only the strike is compared with 0
NoMechanismStrikeOnly(sdr) == FEq(sdr[1], F(0))

\* line 120: strike == 0 and dip == 0
NoMechanism(sdr) == FEq(sdr[1], F(0)) /\ FEq(sdr[2], F(0))

\* variants: the line-count threshold off by one, either way
TooShortSix(event_lines) == Len(event_lines) < 6
TooShortFour(event_lines) == Len(event_lines) < 4

\* line 98
TooShort(event_lines) == Len(event_lines) < 5

\* the exception that stops lines 106-110 short
PdeError(pde_parts) ==
    LET n == PdeAssigned(pde_parts)
        need == CASE n = 0 -> 3 [] n = 1 -> 4 [] n = 2 -> 5 [] n = 3 -> 6 [] OTHER -> 8
    IN IF Len(pde_parts) < need THEN "IndexError" ELSE "ValueError"

\* variant: except ValueError in place of except Exception
OuterCatchesValueError(exc) == exc = "ValueError"

\* line 145, except Exception: every exception the body raises derives from Exception
OuterCatches(exc) == exc \in {"IndexError", "ValueError", "NameError", "RenderError"}

\* variant: except ValueError in place of the bare except
InnerCatchesValueError(exc) == exc = "ValueError"

\* line 156, bare except
InnerCatches(exc) == TRUE

----------------------------------------------------------------------------
(* Points *)
PaddleIcon == [kind |-> "red-circle", n |-> 0]
BeachballFile(n) == [kind |-> "event_fm_png", n |-> n]

\* lines 131-140
FmPoint(n, fault_type, t, m, d, la, lo, sdr) ==
    [name |-> m, href |-> BeachballFile(n), described |-> TRUE,
     fault_type |-> fault_type, time |-> t, mag |-> m, depth |-> d,
     lat |-> la, lon |-> lo, sdr |-> sdr,
     coords |-> <<lo, la, FMul(d, -1000)>>]

\* lines 147-154; described is FALSE when the description f-string raised
FallbackPoint(t, m, d, la, lo) ==
    LET described == t.bound /\ d.bound /\ la.bound /\ lo.bound IN
    [name |-> m.val, href |-> PaddleIcon, described |-> described,
     fault_type |-> "Not available", time |-> t.val, mag |-> m.val, depth |-> d.val,
     lat |-> la.val, lon |-> lo.val, sdr |-> <<>>,
     coords |-> IF described THEN <<lo.val, la.val, FMul(d.val, -1000)>> ELSE <<>>]

----------------------------------------------------------------------------
(* Input files *)
Ch(a, b) == <<a, b>>
RECURSIVE Join(_)
Join(ts) == IF ts = <<>> THEN <<>>
            ELSE IF Len(ts) = 1 THEN Head(ts)
            ELSE Head(ts) \o <<" ">> \o Join(Tail(ts))

Line(tokens) == Join(tokens) \o <<"\n">>

PDEQ == <<"P", "D", "E", "Q">>
PDEW == <<"P", "D", "E", "W">>
SWEQ == <<"S", "W", "E", "Q">>
Junk == <<"z", "z">>
Word == <<"x">>

PdeA == <<PDEQ, Ch("d", "1"), Ch("t", "1"), <<"1">>, <<"-", "2">>, <<"3">>, Word, <<"4">>, Ch("E", "L")>>
PdeB == <<SWEQ, Ch("d", "2"), Ch("t", "2"), <<"5">>, <<"6">>, <<"7">>, Word, <<"8">>>>
PdeC == <<PDEW, Ch("d", "3"), Ch("t", "3"), <<"9">>, <<"1", "0">>, <<"1", "1">>, Word, <<"1", "2">>>>

\* first lines that cannot be parsed: truncated, or one numeric token replaced
Truncate(pde, n) == SubSeq(pde, 1, n)
Spoil(pde, k) == [pde EXCEPT ![k] = Junk]
BadPdeLines == {Truncate(PdeC, 2), Truncate(PdeC, 7), Spoil(PdeC, 5), Spoil(PdeC, 8)}

\* fifth lines: strike, dip, rake are the 6th-, 5th- and 4th-from-last tokens
Sdr(strike, dip, rake) == <<Word, strike, dip, rake, <<"1">>, <<"2">>, <<"3">>>>
SdrLines ==
    { Sdr(<<"1", "0">>, <<"4", "5">>, <<"-", "9", "0">>),
      Sdr(<<"1", "0">>, <<"4", "5">>, <<"9", "0">>),
      Sdr(<<"0">>, <<"4", "5">>, <<"4", "5">>),
      Sdr(<<"1", "0">>, <<"0">>, <<"n", "a", "n">>),
      Sdr(<<"0">>, <<"0">>, <<"9", "0">>),      \* strike = 0 and dip = 0
      Sdr(<<"1", "0">>, Junk, <<"9", "0">>),    \* non-numeric dip
      <<Word, <<"1">>, <<"2">>>> }              \* fewer than 6 tokens
SdrB == Sdr(<<"2", "0">>, <<"3", "0">>, <<"0">>)

Filler == <<Word>>

\* the lines that follow the first line of a block
ShortTails == {<<>>, <<Filler, Filler, Filler>>}
FullTails == {<<Filler, Filler, Filler, s>> : s \in SdrLines}

Blocks ==
    {<<PdeA>> \o t : t \in ShortTails \cup FullTails}
    \cup {<<PdeB, Filler, Filler, Filler, SdrB>>}
    \cup {<<p, Filler, Filler, Filler, SdrB>> : p \in BadPdeLines}
    \cup {<<Truncate(PdeC, 2)>>, <<Filler>>}

RECURSIVE Concat(_)
Concat(ss) == IF ss = <<>> THEN <<>> ELSE Head(ss) \o Concat(Tail(ss))

TextOf(block) == [k \in 1..Len(block) |-> Line(block[k])]

\* structured files: up to MaxEvents blocks
BlockFiles == UNION {{Concat([k \in 1..n |-> TextOf(f[k])]) : f \in [1..n -> Blocks]} : n \in 0..MaxEvents}

\* free-form files: up to MaxLines lines, blank lines and misplaced sentinels included
FreeLines == { <<"\n">>, <<" ", "\t", "\n">>,
               <<"P", "D", "E", "Q", " ", "a", "\n">>,
               <<" ", "S", "W", "E", "Q", "\n">>,
               <<"a", " ", "P", "D", "E", "Q", "\n">>,
               <<"P", "D", "E", "W", "x">>,
               <<"h", " ", "\n">> }
FreeFiles == UNION {[1..n -> FreeLines] : n \in 0..MaxLines}

Files == BlockFiles \cup FreeFiles
RakeValues == {F(r) : r \in (0 - RakeMax)..RakeMax} \cup {NaN}

----------------------------------------------------------------------------
(* create_kml_from_custom_ndk *)

NoFolders == [t \in FaultTypes |-> <<>>]

Init ==
    /\ pc = "read"
    /\ file \in Files
    /\ lines = <<>>
    /\ kml_created = FALSE
    /\ folder_map = NoFolders
    /\ events_without_fm_folder = <<>>
    /\ events_processed_with_fm = 0
    /\ events_processed_without_fm = 0
    /\ events_skipped = 0
    /\ events = <<>>
    /\ i = 0
    /\ time_str = UnboundStr
    /\ lat = UnboundFloat
    /\ lon = UnboundFloat
    /\ depth = UnboundFloat
    /\ mag = UnboundFloat
    /\ assets = {}
    /\ render_failed = {}
    /\ saves = 0
    /\ rake_in = NaN
    /\ rake_out = <<>>

\* lines 38-40: the file is read
ReadFile ==
    /\ pc = "read"
    /\ lines' = file
    /\ pc' = "init"
    /\ UNCHANGED <<file, kml_created, folder_map, events_without_fm_folder,
                   events_processed_with_fm, events_processed_without_fm, events_skipped,
                   events, i, time_str, lat, lon, depth, mag, assets, render_failed, saves,
                   rake_in, rake_out>>

\* lines 41-43: open or readlines raised, the function returns
ReadFails ==
    /\ pc = "read"
    /\ pc' = "returned"
    /\ UNCHANGED <<file, lines, kml_created, folder_map, events_without_fm_folder,
                   events_processed_with_fm, events_processed_without_fm, events_skipped,
                   events, i, time_str, lat, lon, depth, mag, assets, render_failed, saves,
                   rake_in, rake_out>>

\* lines 46-77: document, folders and counters
InitKml ==
    /\ pc = "init"
    /\ kml_created' = TRUE
    /\ folder_map' = NoFolders
    /\ events_without_fm_folder' = <<>>
    /\ events_processed_with_fm' = 0
    /\ events_processed_without_fm' = 0
    /\ events_skipped' = 0
    /\ pc' = "group"
    /\ UNCHANGED <<file, lines, events, i, time_str, lat, lon, depth, mag, assets, render_failed, saves,
                   rake_in, rake_out>>

\* lines 80-93
GroupEvents ==
    /\ pc = "group"
    /\ events' = GroupLines(lines)
    /\ i' = 0
    /\ pc' = "loop"
    /\ UNCHANGED <<file, lines, kml_created, folder_map, events_without_fm_folder,
                   events_processed_with_fm, events_processed_without_fm, events_skipped,
                   time_str, lat, lon, depth, mag, assets, render_failed, saves, rake_in, rake_out>>

\* lines 96-157: one iteration of the loop, for chunk events[i+1] (Python index i);
\* render_ok is whether the external beachball call returns normally
ProcessEvent ==
    /\ pc = "loop"
    /\ i < Len(events)
    /\ i' = i + 1
    /\ \E render_ok \in BOOLEAN :
        LET event_lines == events[i + 1] IN
        IF TooShort(event_lines)
        THEN \* lines 98-100
             /\ events_skipped' = events_skipped + 1
             /\ UNCHANGED <<pc, folder_map, events_without_fm_folder, events_processed_with_fm,
                            events_processed_without_fm, time_str, lat, lon, depth, mag,
                            assets, render_failed>>
        ELSE
        LET has_lines == Len(event_lines) >= 5 IN    \* event_lines[4] exists
        \E pde_parts \in {Split(event_lines[1])},
           sdr_parts \in {IF has_lines THEN Split(event_lines[5]) ELSE <<>>} :
        \E n \in {IF has_lines THEN PdeAssigned(pde_parts) ELSE 0} :
        LET
            new_time == IF n >= 1 THEN Bound(TimeOf(pde_parts)) ELSE time_str
            new_lat == IF n >= 2 THEN Bound(ParseFloat(pde_parts[4])) ELSE lat
            new_lon == IF n >= 3 THEN Bound(ParseFloat(pde_parts[5])) ELSE lon
            new_depth == IF n >= 4 THEN Bound(ParseFloat(pde_parts[6])) ELSE depth
            new_mag == IF n >= 5 THEN Bound(ParseFloat(pde_parts[8])) ELSE mag
            sdr == SdrOf(sdr_parts)
            to_render == n = 5 /\ SdrParses(sdr_parts) /\ ~NoMechanism(sdr)
            cc == classify_and_color_by_rake(sdr[3])
            \* the exception raised in the try body, "none" when it completes
            raised == IF ~has_lines THEN "IndexError"
                      ELSE IF n < 5 THEN PdeError(pde_parts)
                      ELSE IF ~to_render THEN "ValueError"
                      ELSE IF ~render_ok THEN "RenderError"
                      ELSE "none"
        IN
        /\ time_str' = new_time
        /\ lat' = new_lat
        /\ lon' = new_lon
        /\ depth' = new_depth
        /\ mag' = new_mag
        /\ render_failed' = IF raised = "RenderError" THEN render_failed \cup {i + 1}
                            ELSE render_failed
        /\ IF raised = "none"
           THEN \* lines 123-141
                /\ assets' = assets \cup {[n |-> i + 1, facecolor |-> cc[2], sdr |-> sdr]}
                /\ folder_map' = [folder_map EXCEPT ![cc[1]] =
                       Append(@, FmPoint(i + 1, cc[1], new_time.val, new_mag.val, new_depth.val,
                                         new_lat.val, new_lon.val, sdr))]
                /\ events_processed_with_fm' = events_processed_with_fm + 1
                /\ UNCHANGED <<pc, events_without_fm_folder, events_processed_without_fm,
                               events_skipped>>
           ELSE IF ~OuterCatches(raised)
           THEN \* the exception leaves the function
                /\ pc' = "crashed"
                /\ UNCHANGED <<assets, folder_map, events_processed_with_fm,
                               events_without_fm_folder, events_processed_without_fm,
                               events_skipped>>
           ELSE \* lines 145-157: the handler
                /\ UNCHANGED <<assets, folder_map, events_processed_with_fm>>
                /\ IF ~new_mag.bound
                   THEN \* line 147 raises NameError before newpoint is called
                        IF InnerCatches("NameError")
                        THEN /\ events_skipped' = events_skipped + 1
                             /\ UNCHANGED <<pc, events_without_fm_folder,
                                            events_processed_without_fm>>
                        ELSE /\ pc' = "crashed"
                             /\ UNCHANGED <<events_without_fm_folder,
                                            events_processed_without_fm, events_skipped>>
                   ELSE LET pnt == FallbackPoint(new_time, new_mag, new_depth, new_lat, new_lon) IN
                        /\ events_without_fm_folder' = Append(events_without_fm_folder, pnt)
                        /\ IF pnt.described
                           THEN /\ events_processed_without_fm' = events_processed_without_fm + 1
                                /\ UNCHANGED <<pc, events_skipped>>
                           ELSE IF InnerCatches("NameError")
                           THEN /\ events_skipped' = events_skipped + 1
                                /\ UNCHANGED <<pc, events_processed_without_fm>>
                           ELSE /\ pc' = "crashed"
                                /\ UNCHANGED <<events_processed_without_fm, events_skipped>>
    /\ UNCHANGED <<file, lines, kml_created, events, saves, rake_in, rake_out>>

\* line 160
SaveKml ==
    /\ pc = "loop"
    /\ i = Len(events)
    /\ saves' = saves + 1
    /\ pc' = "done"
    /\ UNCHANGED <<file, lines, kml_created, folder_map, events_without_fm_folder,
                   events_processed_with_fm, events_processed_without_fm, events_skipped,
                   events, i, time_str, lat, lon, depth, mag, assets, render_failed, rake_in, rake_out>>

Next == ReadFile \/ ReadFails \/ InitKml \/ GroupEvents \/ ProcessEvent \/ SaveKml

Spec == Init /\ [][Next]_vars

----------------------------------------------------------------------------
(* The classifier on its own: one call with an arbitrary rake *)
InitRake ==
    /\ pc = "classify"
    /\ file = <<>>
    /\ lines = <<>>
    /\ kml_created = FALSE
    /\ folder_map = NoFolders
    /\ events_without_fm_folder = <<>>
    /\ events_processed_with_fm = 0
    /\ events_processed_without_fm = 0
    /\ events_skipped = 0
    /\ events = <<>>
    /\ i = 0
    /\ time_str = UnboundStr
    /\ lat = UnboundFloat
    /\ lon = UnboundFloat
    /\ depth = UnboundFloat
    /\ mag = UnboundFloat
    /\ assets = {}
    /\ render_failed = {}
    /\ saves = 0
    /\ rake_in \in RakeValues
    /\ rake_out = <<>>

Classify ==
    /\ pc = "classify"
    /\ rake_out' = classify_and_color_by_rake(rake_in)
    /\ pc' = "classified"
    /\ UNCHANGED <<file, lines, kml_created, folder_map, events_without_fm_folder,
                   events_processed_with_fm, events_processed_without_fm, events_skipped,
                   events, i, time_str, lat, lon, depth, mag, assets, render_failed, saves, rake_in>>

NextRake == Classify

SpecRake == InitRake /\ [][NextRake]_vars

\* the script runs to completion: the next statement is always executed
FairSpec == Spec /\ WF_vars(Next)

----------------------------------------------------------------------------
(* Vocabulary of the properties *)

FmPlacemarks == Len(folder_map["Normal"]) + Len(folder_map["Thrust"])
                + Len(folder_map["Strike-Slip"]) + Len(folder_map["Oblique"])
Placemarks == FmPlacemarks + Len(events_without_fm_folder)

InLoop == pc \in {"loop", "done"}

\* the step that processes chunk events[i+1]
Iteration == pc = "loop" /\ i' = i + 1

\* the first line of a chunk parses: 8 tokens, numeric latitude, longitude, depth, magnitude
FirstLineParses(ev) ==
    LET p == Split(ev[1]) IN
    Len(p) >= 8 /\ \A k \in {4, 5, 6, 8} : IsFloat(p[k])

\* the chunk carries a focal mechanism
ChunkComplete(ev) ==
    /\ Len(ev) >= 5
    /\ FirstLineParses(ev)
    /\ LET q == Split(ev[5]) IN
       /\ Len(q) >= 6
       /\ \A k \in 4..6 : IsFloat(q[Len(q) - k + 1])
       /\ ~(ParseFloat(q[Len(q) - 5]) = F(0) /\ ParseFloat(q[Len(q) - 4]) = F(0))

RakeOfChunk(ev) == LET q == Split(ev[5]) IN ParseFloat(q[Len(q) - 3])

AddedTo(old, new, p) == new = Append(old, p)

\* exactly one point, p, was added, to the sub-folder of fault type t
AddedFm(t, p) ==
    /\ AddedTo(folder_map[t], folder_map'[t], p)
    /\ \A u \in FaultTypes \ {t} : folder_map'[u] = folder_map[u]
    /\ events_without_fm_folder' = events_without_fm_folder

\* exactly one point, p, was added, to the fallback folder
AddedFallback(p) ==
    /\ AddedTo(events_without_fm_folder, events_without_fm_folder', p)
    /\ folder_map' = folder_map

AddedNothing == folder_map' = folder_map /\ events_without_fm_folder' = events_without_fm_folder

\* the points a step appends to any folder
Appended(old, new) == {new[k] : k \in (Len(old) + 1)..Len(new)}
NewPoints == Appended(events_without_fm_folder, events_without_fm_folder')
             \cup UNION {Appended(folder_map[t], folder_map'[t]) : t \in FaultTypes}

InRange(r, lo, hi) == ~r.nan /\ lo <= r.v /\ r.v <= hi
Abs(n) == IF n < 0 THEN 0 - n ELSE n
StrictlyBetweenAbs(r, lo, hi) == ~r.nan /\ lo < Abs(r.v) /\ Abs(r.v) < hi

RECURSIVE StrippedNonBlank(_)
StrippedNonBlank(ls) ==
    IF ls = <<>> THEN <<>>
    ELSE IF Strip(Head(ls)) = <<>> THEN StrippedNonBlank(Tail(ls))
    ELSE <<Strip(Head(ls))>> \o StrippedNonBlank(Tail(ls))

----------------------------------------------------------------------------
(* C1 *)

\* C1 as stated: every chunk yields exactly one placemark, so the number of
\* placemarks equals the number of chunks processed (and len(events) at the end).
C1_OnePlacemarkPerChunk == InLoop => Placemarks = i

\* C1 amended: every chunk yields at most one placemark. It is a point in exactly
\* one fault-type folder only if the chunk's data is complete, and always when it
\* is complete and rendering did not fail; otherwise it is a point in the fallback
\* folder, or no placemark at all and the chunk is counted in events_skipped
\* (always so for a chunk of fewer than 5 lines). The number of placemarks equals
\* the number of chunks processed minus events_skipped.
C1_AtMostOnePlacemark ==
    /\ [](InLoop => Placemarks = i - events_skipped)
    /\ [][Iteration =>
            LET ev == events[i + 1]
                complete == ChunkComplete(ev) /\ (i + 1) \notin render_failed'
            IN /\ \/ /\ complete
                     /\ \E t \in FaultTypes : \E p \in NewPoints : AddedFm(t, p)
                     /\ events_skipped' = events_skipped
                  \/ /\ ~complete
                     /\ \E p \in NewPoints : AddedFallback(p)
                     /\ events_skipped' = events_skipped
                  \/ /\ ~complete
                     /\ AddedNothing
                     /\ events_skipped' = events_skipped + 1
               /\ Len(ev) < 5 => AddedNothing]_vars

C1_Witness ==
    /\ pc = "done"
    /\ Len(events) = 2
    /\ Len(events[1]) < 5
    /\ FmPlacemarks = 1
    /\ events_skipped = 1

----------------------------------------------------------------------------
(* C2 *)

\* C2 as stated: the classifier returns exactly one label for every rake, a key
\* of folder_map: Normal iff -120 <= rake <= -60, Thrust iff 60 <= rake <= 120,
\* Strike-Slip iff -30 <= rake <= 30 or rake >= 150 or rake <= -150, and Oblique
\* exactly for 30 < |rake| < 60 and 120 < |rake| < 150.
C2_FourWayRangeCheck ==
    pc = "classified" =>
        LET label == rake_out[1]
            r == rake_in
        IN /\ label \in FaultTypes
           /\ label = "Normal" <=> InRange(r, -120, -60)
           /\ label = "Thrust" <=> InRange(r, 60, 120)
           /\ label = "Strike-Slip" <=> (InRange(r, -30, 30) \/ (~r.nan /\ r.v >= 150)
                                           \/ (~r.nan /\ r.v <= -150))
           /\ label = "Oblique" <=> (StrictlyBetweenAbs(r, 30, 60) \/ StrictlyBetweenAbs(r, 120, 150))

\* C2 amended: as stated, except that Oblique is returned exactly for
\* 30 < |rake| < 60, for 120 < |rake| < 150 and for a rake that is NaN.
C2_FourWayRangeCheckNaN ==
    pc = "classified" =>
        LET label == rake_out[1]
            r == rake_in
        IN /\ label \in FaultTypes
           /\ label = "Normal" <=> InRange(r, -120, -60)
           /\ label = "Thrust" <=> InRange(r, 60, 120)
           /\ label = "Strike-Slip" <=> (InRange(r, -30, 30) \/ (~r.nan /\ r.v >= 150)
                                           \/ (~r.nan /\ r.v <= -150))
           /\ label = "Oblique" <=> (r.nan \/ StrictlyBetweenAbs(r, 30, 60)
                                       \/ StrictlyBetweenAbs(r, 120, 150))

C2_Witness == pc = "classified" /\ rake_in = F(-120) /\ rake_out[1] = "Normal"

----------------------------------------------------------------------------
(* C3 *)

\* C3: the color returned for a fault type is the one of the docstring and of the
\* legend: Normal red, Thrust blue, Strike-Slip green, Oblique yellow.
C3_ColorMatchesLegend ==
    pc = "classified" => rake_out[2] = LegendColor[rake_out[1]]

----------------------------------------------------------------------------
(* C4 *)

\* C4: the chunks concatenated in order are the stripped non-blank input lines in
\* order; no chunk is empty; every chunk but the first begins with a sentinel
\* line; no chunk has a sentinel line anywhere but at its first position.
C4_GrouperPartitions ==
    InLoop =>
        /\ Concat(events) = StrippedNonBlank(lines)
        /\ \A k \in 1..Len(events) :
            /\ events[k] # <<>>
            /\ k > 1 => IsSentinelLine(events[k][1])
            /\ \A j \in 2..Len(events[k]) : ~IsSentinelLine(events[k][j])

C4_Witness ==
    /\ pc = "loop"
    /\ Len(events) = 2
    /\ ~IsSentinelLine(events[1][1])
    /\ Len(events[1]) = 1
    /\ Len(events[2]) = 2
    /\ Len(lines) = 4
    /\ lines[4] # events[2][2]

----------------------------------------------------------------------------
(* C5 *)

\* C5: processing a chunk whose first line cannot be parsed adds no placemark to
\* any folder, increments events_skipped by one and leaves the other two
\* counters unchanged, whatever was processed before.
C5_MalformedIsSkipped ==
    [][Iteration /\ ~FirstLineParses(events[i + 1]) =>
          /\ AddedNothing
          /\ events_skipped' = events_skipped + 1
          /\ events_processed_with_fm' = events_processed_with_fm
          /\ events_processed_without_fm' = events_processed_without_fm]_vars

----------------------------------------------------------------------------
(* C6 *)

\* C6: a chunk gets a placemark in a fault-type folder iff it is complete (5 lines,
\* first line parses, numeric strike, dip, rake on the fifth line, not strike = 0
\* and dip = 0) and rendering does not fail; the placemark then goes to exactly
\* one folder, that of the classification of the chunk's own rake, and its icon
\* is event_<i+1>_fm.png, the image rendered for that chunk.
C6_FaultFolderIffComplete ==
    [][Iteration =>
          LET ev == events[i + 1] IN
          /\ folder_map' # folder_map <=>
                (ChunkComplete(ev) /\ (i + 1) \notin render_failed')
          /\ folder_map' # folder_map =>
                LET t == classify_and_color_by_rake(RakeOfChunk(ev))[1] IN
                \E p \in NewPoints :
                    /\ AddedFm(t, p)
                    /\ p.href = BeachballFile(i + 1)
                    /\ \E a \in assets' \ assets : a.n = i + 1 /\ a.sdr[3] = RakeOfChunk(ev)]_vars

C6_Witness ==
    /\ pc = "loop"
    /\ i = 2
    /\ ChunkComplete(events[2])
    /\ Len(folder_map["Strike-Slip"]) = 1
    /\ folder_map["Strike-Slip"][1].href = BeachballFile(2)
    /\ Len(events[1]) >= 5 /\ ~ChunkComplete(events[1])
    /\ FmPlacemarks = 1

----------------------------------------------------------------------------
(* C7 *)

\* C7: every placemark added while chunk k is processed carries the time,
\* magnitude, depth, latitude and longitude parsed from chunk k's own first line.
C7_OwnFirstLine ==
    [][Iteration =>
          \A p \in NewPoints :
              LET parts == Split(events[i + 1][1]) IN
              /\ FirstLineParses(events[i + 1])
              /\ p.time = TimeOf(parts)
              /\ p.mag = ParseFloat(parts[8])
              /\ p.depth = ParseFloat(parts[6])
              /\ p.lat = ParseFloat(parts[4])
              /\ p.lon = ParseFloat(parts[5])]_vars

----------------------------------------------------------------------------
(* C8 *)

\* C8: after every iteration the three counters add up to the number of chunks
\* processed, the fault-type folders hold events_processed_with_fm placemarks and
\* the fallback folder events_processed_without_fm; each iteration increments
\* exactly one counter by exactly one; at the end the sum is len(events).
C8_CountersPartition ==
    /\ [](InLoop =>
            /\ events_processed_with_fm + events_processed_without_fm + events_skipped = i
            /\ FmPlacemarks = events_processed_with_fm
            /\ Len(events_without_fm_folder) = events_processed_without_fm
            /\ pc = "done" => i = Len(events))
    /\ [][Iteration =>
            \/ /\ events_processed_with_fm' = events_processed_with_fm + 1
               /\ UNCHANGED <<events_processed_without_fm, events_skipped>>
            \/ /\ events_processed_without_fm' = events_processed_without_fm + 1
               /\ UNCHANGED <<events_processed_with_fm, events_skipped>>
            \/ /\ events_skipped' = events_skipped + 1
               /\ UNCHANGED <<events_processed_with_fm, events_processed_without_fm>>]_vars

C8_Witness ==
    /\ pc = "done"
    /\ events_processed_with_fm = 1
    /\ events_processed_without_fm = 1
    /\ render_failed # {}

----------------------------------------------------------------------------
(* C9 *)

\* C9: a chunk of fewer than 5 lines is counted in events_skipped and nothing
\* else happens: no placemark in any folder, no diagram rendered, the other two
\* counters unchanged, whether or not its first line parses and whatever was
\* processed before.
C9_ShortChunkSkipped ==
    [][Iteration /\ Len(events[i + 1]) < 5 =>
          /\ events_skipped' = events_skipped + 1
          /\ AddedNothing
          /\ assets' = assets
          /\ render_failed' = render_failed
          /\ events_processed_with_fm' = events_processed_with_fm
          /\ events_processed_without_fm' = events_processed_without_fm]_vars

C9_Witness ==
    /\ pc = "loop"
    /\ i = 2
    /\ Len(events[2]) = 4
    /\ FirstLineParses(events[2])
    /\ mag.bound
    /\ events_processed_without_fm = 1
    /\ events_skipped = 1

----------------------------------------------------------------------------
(* C10 *)

\* C10: when the file was read the document is written exactly once, only after
\* every chunk has been processed; no failure in a chunk leaves the loop or keeps
\* kml.save from being reached; when reading fails the function returns without
\* creating the folders, processing an event or writing the document.
C10_SavedOnceAfterLoop ==
    /\ [](/\ pc # "crashed"
          /\ saves <= 1
          /\ saves = 1 <=> pc = "done"
          /\ pc = "done" => i = Len(events) /\ lines = file
          /\ pc = "returned" =>
                /\ ~kml_created /\ saves = 0 /\ i = 0 /\ events = <<>>
                /\ Placemarks = 0 /\ assets = {})
    /\ [][saves' # saves => pc = "loop" /\ i = Len(events) /\ saves' = saves + 1]_vars
    /\ (pc = "init") ~> (saves = 1)

C10_Witness ==
    /\ pc = "done"
    /\ saves = 1
    /\ Len(events) = 2
    /\ events_skipped = 1
    /\ render_failed # {}

====
